---- MODULE Spec2Model ----
(***************************************************************************)
(* setlist_to_playlist.py: a setlist fetched from setlist.fm is turned     *)
(* into a playlist of the host music application (AppleScript on macOS,    *)
(* COM on Windows) or into an M3U file.  The model follows main() step by  *)
(* step, the two live controllers, the resolver and the exporter, against  *)
(* a host library that outlives a run, so that the command can be re-run.  *)
(* Strings are sequences of one-character strings.                         *)
(***************************************************************************)
EXTENDS Integers, Sequences, FiniteSets, TLC

(* ---------------------------- bounds ----------------------------------- *)

\* longest track list the catalog client hands over
MaxSongs == 2
\* how many times the command is run against the same host library
MaxRuns == 2
\* how many consecutive create_playlist calls one library receives
MaxCalls == 3

(* ---------------------------- strings ---------------------------------- *)

Quote == "\""
Backslash == "\\"
Space == " "
Newline == "\n"

RECURSIVE Replace(_, _, _)
\* s.replace(old, new) for a one-character old
Replace(s, old, new) ==
    IF s = <<>> THEN <<>>
    ELSE (IF Head(s) = old THEN new ELSE <<Head(s)>>) \o Replace(Tail(s), old, new)

(* ---------------------------- inputs ----------------------------------- *)

\* the tracks parse_songs can hand over: a plain one, and one whose title
\* carries a double quote
SongA == [name |-> <<"a">>, artist |-> <<"x">>]
SongB == [name |-> <<"b", Quote>>, artist |-> <<"y">>]
TrackSet == {SongA, SongB}

RECURSIVE SeqsUpTo(_, _)
SeqsUpTo(S, n) ==
    IF n = 0 THEN {<<>>}
    ELSE LET shorter == SeqsUpTo(S, n - 1)
         IN  shorter \cup {Append(s, x) : s \in {t \in shorter : Len(t) = n - 1}, x \in S}

\* every track list of at most MaxSongs tracks, the empty one and lists with
\* a repeated track included
TrackLists == SeqsUpTo(TrackSet, MaxSongs)

\* playlist names: a plain one and one with a double quote in it
NameTour == <<"T">>
NameQuoted == <<"T", Quote>>
PlaylistNames == {NameTour, NameQuoted}

\* --output: absent (None) or an explicit path
NoOutput == [given |-> FALSE, path |-> <<>>]
OutputArgs == {NoOutput, [given |-> TRUE, path |-> <<"o">>]}

Platforms == {"darwin", "win32", "linux"}

(* ---------------------------- host application ------------------------- *)

\* source kinds of the COM object model; 1 is the library (line 199)
KindLibrary == 1
\* any other kind (a device, a radio tuner, ...)
KindDevice == KindLibrary + 1

\* tracks of the host library a search can return
LibTracks == {"t1", "t2"}

\* what the host search can answer for one query: nothing, one track, or
\* two tracks in an order of the host's choosing
ResultLists == {<<>>, <<"t1">>, <<"t2", "t1">>}

\* the search phrase of a track (line 236)
search_query(song_name, artist_name) == song_name \o <<Space>> \o artist_name

Queries == {search_query(t.name, t.artist) : t \in TrackSet}

\* the host's answer to every query; it does not change during a behaviour
Catalogs == [Queries -> ResultLists]

EmptyPlaylist(name) == [Name |-> name, Tracks |-> <<>>]

\* host libraries the first run can meet: an empty library; a library that
\* already holds the plain-named playlist with one track in it; a library
\* whose device source holds a playlist of that name while the library
\* source does not
InitSources ==
    { << [Kind |-> KindLibrary, Playlists |-> <<>>] >>,
      << [Kind |-> KindLibrary,
          Playlists |-> << [Name |-> NameTour, Tracks |-> <<"t2">>] >>] >>,
      << [Kind |-> KindDevice, Playlists |-> << EmptyPlaylist(NameTour) >>],
         [Kind |-> KindLibrary, Playlists |-> <<>>] >> }

\* positions <<s, p>> of the library-kind playlists called name, in the
\* order the nested loops of lines 198-202 and 221-225 visit them
Matches(srcs, name) ==
    UNION { { <<s, p>> : p \in {q \in DOMAIN srcs[s].Playlists :
                                    srcs[s].Playlists[q].Name = name} } :
            s \in {i \in DOMAIN srcs : srcs[i].Kind = KindLibrary} }

Before(a, b) == a[1] < b[1] \/ (a[1] = b[1] /\ a[2] < b[2])

\* the first match of the scan
FirstMatch(srcs, name) ==
    CHOOSE m \in Matches(srcs, name) : \A o \in Matches(srcs, name) : o = m \/ Before(m, o)

\* number of library playlists called name
CountPlaylists(srcs, name) == Cardinality(Matches(srcs, name))

\* tracks of the first library playlist called name, <<>> when there is none
PlaylistTracks(srcs, name) ==
    IF Matches(srcs, name) = {} THEN <<>>
    ELSE LET m == FirstMatch(srcs, name) IN srcs[m[1]].Playlists[m[2]].Tracks

RECURSIVE TotalPlaylists(_)
\* number of playlists of every source together
TotalPlaylists(srcs) ==
    IF srcs = <<>> THEN 0 ELSE Len(Head(srcs).Playlists) + TotalPlaylists(Tail(srcs))

RECURSIVE TotalTracks(_)
\* number of playlist entries of the first source's playlists pls
TotalTracks(pls) ==
    IF pls = <<>> THEN 0 ELSE Len(Head(pls).Tracks) + TotalTracks(Tail(pls))

RECURSIVE TotalEntries(_)
\* number of playlist entries of every source together
TotalEntries(srcs) ==
    IF srcs = <<>> THEN 0 ELSE TotalTracks(Head(srcs).Playlists) + TotalEntries(Tail(srcs))

\* the host creates an empty user playlist in its library source
HostCreatePlaylist(srcs, name) ==
    LET s == CHOOSE i \in DOMAIN srcs :
                 /\ srcs[i].Kind = KindLibrary
                 /\ \A j \in DOMAIN srcs : srcs[j].Kind = KindLibrary => i <= j
    IN  [srcs EXCEPT ![s].Playlists = Append(@, EmptyPlaylist(name))]

\* an addition that skips a track the playlist already holds
HostAddIfAbsent(srcs, m, track) ==
    IF \E k \in DOMAIN srcs[m[1]].Playlists[m[2]].Tracks :
           srcs[m[1]].Playlists[m[2]].Tracks[k] = track
    THEN srcs
    ELSE [srcs EXCEPT ![m[1]].Playlists[m[2]].Tracks = Append(@, track)]

\* "duplicate theTrack to playlist" (line 133), track.AddToPlaylist (line
\* 242): the host appends one track to the playlist at position m
HostAddToPlaylist(srcs, m, track) ==
    [srcs EXCEPT ![m[1]].Playlists[m[2]].Tracks = Append(@, track)]

\* the playlist at position m is removed from the host's library (by the user
\* of the application, while the command runs)
HostDeletePlaylist(srcs, m) ==
    [srcs EXCEPT ![m[1]].Playlists =
        [k \in 1..(Len(@) - 1) |-> IF k < m[2] THEN @[k] ELSE @[k + 1]]]

\* the host's search of its library
HostSearch(cat, query) == IF query \in DOMAIN cat THEN cat[query] ELSE <<>>

(* ---------------------------- both live controllers ------------------- *)

\* a slip of the index: the last result instead of the first
last_result(results) == results[Len(results)]

\* "item 1 of searchResults" (line 132), search_results.Item(1) (line 241)
first_result(results) == results[1]

(* ---------------------------- AppleScript bridge ----------------------- *)

RECURSIVE DecodeLiteral(_)
\* How the script compiler reads text placed between two double quotes:
\* a backslash takes the next character with it, a bare double quote closes
\* the literal.  ok is FALSE when the text closes the literal itself, ends in
\* a backslash that would swallow the closing quote, or holds an escape the
\* language does not have; value is the string the literal then denotes.
DecodeLiteral(text) ==
    IF text = <<>> THEN [ok |-> TRUE, value |-> <<>>]
    ELSE IF Head(text) = Quote THEN [ok |-> FALSE, value |-> <<>>]
    ELSE IF Head(text) = Backslash
         THEN IF Len(text) >= 2 /\ text[2] \in {Quote, Backslash}
              THEN LET rest == DecodeLiteral(Tail(Tail(text)))
                   IN  [ok |-> rest.ok, value |-> <<text[2]>> \o rest.value]
              ELSE [ok |-> FALSE, value |-> <<>>]
    ELSE LET rest == DecodeLiteral(Tail(text))
         IN  [ok |-> rest.ok, value |-> <<Head(text)>> \o rest.value]

\* '"', '\\"' of lines 124-125
escape_quotes(text) == Replace(text, Quote, <<Backslash, Quote>>)

\* the literal "{song_name_escaped} {artist_name_escaped}" of line 130, as
\* the script compiler reads it
mac_search_literal(song_name, artist_name) ==
    DecodeLiteral(escape_quotes(song_name) \o <<Space>> \o escape_quotes(artist_name))

\* the literal "{name}" of lines 110-111 and "{playlist_name}" of line 133:
\* the name goes into the script as it is
mac_playlist_literal(name) == DecodeLiteral(name)

\* AppleMusicMacController.create_playlist: the script names the playlist by
\* the raw name; osascript fails (run_applescript raises) when the script
\* does not compile or the host cannot be driven (fault).
mac_create_playlist(srcs, name, fault) ==
    LET lit == mac_playlist_literal(name)
    IN  IF ~lit.ok \/ fault
        THEN [raised |-> TRUE, sources |-> srcs, out |-> <<"AppleScript error">>]
        ELSE [raised |-> FALSE,
              sources |-> IF Matches(srcs, lit.value) = {}
                          THEN HostCreatePlaylist(srcs, lit.value)
                          ELSE srcs,
              out |-> <<"Created playlist">>]

\* what osascript prints for the script of lines 127-142, or "raise" when it
\* exits non-zero; stage is where the host fails: "none", "channel" (the
\* osascript process fails), "search" or "add" (an error inside the script's
\* try block, answered by its on error clause)
mac_run_search_script(srcs, cat, playlist_name, song_name, artist_name, stage) ==
    LET query == mac_search_literal(song_name, artist_name)
        dest == mac_playlist_literal(playlist_name)
        searchResults == HostSearch(cat, query.value)
    IN  IF ~query.ok \/ ~dest.ok \/ stage = "channel"
        THEN [result |-> "raise", searched |-> FALSE, results |-> <<>>, sources |-> srcs]
        ELSE IF stage = "search"
        THEN [result |-> "error: search", searched |-> FALSE, results |-> <<>>,
              sources |-> srcs]
        ELSE IF Len(searchResults) > 0
        THEN IF stage = "add" \/ Matches(srcs, dest.value) = {}
             THEN [result |-> "error: duplicate", searched |-> TRUE,
                   results |-> searchResults, sources |-> srcs]
             ELSE [result |-> "success", searched |-> TRUE, results |-> searchResults,
                   sources |-> HostAddToPlaylist(srcs, FirstMatch(srcs, dest.value),
                                                 first_result(searchResults))]
        ELSE [result |-> "not found", searched |-> TRUE, results |-> searchResults,
              sources |-> srcs]

\* the method without the except clause of lines 155-157: the exception of
\* run_applescript leaves it
mac_search_and_add_song_no_except(srcs, cat, playlist_name, song_name, artist_name, stage) ==
    LET run == mac_run_search_script(srcs, cat, playlist_name, song_name, artist_name, stage)
    IN  [searched |-> run.searched, results |-> run.results, sources |-> run.sources,
         raised |-> run.result = "raise", ret |-> run.result = "success",
         outcome |-> IF run.result = "raise" THEN "Exception"
                     ELSE IF run.result = "success" THEN "Added"
                     ELSE IF run.result = "not found" THEN "NotFound" ELSE "Error",
         out |-> <<>>]

\* AppleMusicMacController.search_and_add_song; raised tells whether an
\* exception leaves the method: the except clause of line 155 lets none out
mac_search_and_add_song(srcs, cat, playlist_name, song_name, artist_name, stage) ==
    LET run == mac_run_search_script(srcs, cat, playlist_name, song_name, artist_name, stage)
        base == [searched |-> run.searched, results |-> run.results, sources |-> run.sources,
                 raised |-> FALSE]
    IN  IF run.result = "raise"
        THEN base @@ [ret |-> FALSE, outcome |-> "Exception", out |-> <<"Failed to add">>]
        ELSE IF run.result = "success"
        THEN base @@ [ret |-> TRUE, outcome |-> "Added", out |-> <<"Added">>]
        ELSE IF run.result = "not found"
        THEN base @@ [ret |-> FALSE, outcome |-> "NotFound", out |-> <<"Not found">>]
        ELSE base @@ [ret |-> FALSE, outcome |-> "Error", out |-> <<"Error adding">>]

(* ---------------------------- COM bridge ------------------------------- *)

\* the handle before the first binding (line 167)
Unbound == "None"

\* what a binding attempt can end in: the Apple Music server answers, only
\* the iTunes server answers, or neither does
BindOutcomes == {"AppleMusic.Application", "iTunes.Application", "unreachable"}

\* a controller that dispatches anew on every call
get_itunes_rebinds(itunes, bind) ==
    IF bind = "unreachable"
    THEN [raised |-> TRUE, itunes |-> Unbound, attempted |-> TRUE, out |-> <<>>]
    ELSE [raised |-> FALSE, itunes |-> bind, attempted |-> TRUE, out |-> <<"Connected">>]

\* AppleMusicWindowsController._get_itunes: binds only while the handle is
\* None, Apple Music first, then iTunes; raises RuntimeError when both fail
get_itunes(itunes, bind) ==
    IF itunes = Unbound
    THEN IF bind = "unreachable"
         THEN [raised |-> TRUE, itunes |-> Unbound, attempted |-> TRUE, out |-> <<>>]
         ELSE [raised |-> FALSE, itunes |-> bind, attempted |-> TRUE,
               out |-> <<"Connected">>]
    ELSE [raised |-> FALSE, itunes |-> itunes, attempted |-> FALSE, out |-> <<>>]

\* a scan that looks at the sources of the wrong kind
playlist_exists_wrong_kind(srcs, name) ==
    \E s \in DOMAIN srcs :
        /\ srcs[s].Kind # KindLibrary
        /\ \E q \in DOMAIN srcs[s].Playlists : srcs[s].Playlists[q].Name = name

\* the scan of lines 197-204: some library source has a playlist of that name
playlist_exists(srcs, name) ==
    \E s \in DOMAIN srcs :
        /\ srcs[s].Kind = KindLibrary
        /\ \E q \in DOMAIN srcs[s].Playlists : srcs[s].Playlists[q].Name = name

\* AppleMusicWindowsController.create_playlist; fault: a COM call raises
win_create_playlist(srcs, itunes, name, bind, fault) ==
    LET app == get_itunes(itunes, bind)
    IN  IF app.raised \/ fault
        THEN [raised |-> TRUE, sources |-> srcs, itunes |-> app.itunes,
              attempted |-> app.attempted, out |-> app.out]
        ELSE IF playlist_exists(srcs, name)
        THEN [raised |-> FALSE, sources |-> srcs, itunes |-> app.itunes,
              attempted |-> app.attempted,
              out |-> app.out \o <<"Playlist already exists">>]
        ELSE [raised |-> FALSE, sources |-> HostCreatePlaylist(srcs, name),
              itunes |-> app.itunes, attempted |-> app.attempted,
              out |-> app.out \o <<"Created playlist">>]

\* AppleMusicWindowsController.search_and_add_song; stage is where a COM
\* call raises: "none", "channel" (the scan of the sources), "search" or
\* "add"; the
\* try of line 215 covers the binding too, so no exception leaves the method
win_search_and_add_song(srcs, cat, itunes, playlist_name, song_name, artist_name, bind, stage) ==
    LET app == get_itunes(itunes, bind)
        base == [itunes |-> app.itunes, attempted |-> app.attempted, raised |-> FALSE]
        search_results == HostSearch(cat, search_query(song_name, artist_name))
    IN  IF app.raised \/ stage = "channel"
        THEN base @@ [ret |-> FALSE, outcome |-> "Exception", searched |-> FALSE,
                      results |-> <<>>, sources |-> srcs,
                      out |-> app.out \o <<"Error adding">>]
        ELSE IF Matches(srcs, playlist_name) = {}
        THEN base @@ [ret |-> FALSE, outcome |-> "PlaylistNotFound", searched |-> FALSE,
                      results |-> <<>>, sources |-> srcs,
                      out |-> app.out \o <<"Playlist not found">>]
        ELSE IF stage = "search"
        THEN base @@ [ret |-> FALSE, outcome |-> "Exception", searched |-> FALSE,
                      results |-> <<>>, sources |-> srcs,
                      out |-> app.out \o <<"Error adding">>]
        ELSE IF Len(search_results) > 0
        THEN IF stage = "add"
             THEN base @@ [ret |-> FALSE, outcome |-> "Exception", searched |-> TRUE,
                           results |-> search_results, sources |-> srcs,
                           out |-> app.out \o <<"Error adding">>]
             ELSE base @@ [ret |-> TRUE, outcome |-> "Added", searched |-> TRUE,
                           results |-> search_results,
                           sources |-> HostAddToPlaylist(srcs,
                                           FirstMatch(srcs, playlist_name),
                                           first_result(search_results)),
                           out |-> app.out \o <<"Added">>]
        ELSE base @@ [ret |-> FALSE, outcome |-> "NotFound", searched |-> TRUE,
                      results |-> search_results, sources |-> srcs,
                      out |-> app.out \o <<"Not found">>]

(* ---------------------------- M3U exporter ----------------------------- *)

\* characters str.isalnum accepts, among those the model's strings use
Alnum == {"a", "b", "x", "y", "o", "T", "m", "u", "3"}

RECURSIVE Filter(_)
\* the generator of line 265: keeps alphanumerics, ' ', '-' and '_'
Filter(text) ==
    IF text = <<>> THEN <<>>
    ELSE (IF Head(text) \in Alnum \/ Head(text) \in {Space, "-", "_"}
          THEN <<Head(text)>> ELSE <<>>) \o Filter(Tail(text))

\* a file name that keeps the trailing whitespace
rstrip_nothing(text) == text

RECURSIVE rstrip(_)
\* str.rstrip(): drops trailing whitespace
rstrip(text) ==
    IF text # <<>> /\ text[Len(text)] = Space
    THEN rstrip(SubSeq(text, 1, Len(text) - 1))
    ELSE text

\* safe_name and the default output_path of lines 265-266
default_output_path(playlist_name) ==
    rstrip(Filter(playlist_name)) \o <<".", "m", "3", "u">>

EXTM3U == <<"#", "E", "X", "T", "M", "3", "U">>
EXTINF == <<"#", "E", "X", "T", "I", "N", "F", ":", "-", "1", ",">>
SearchPrefix == <<"#", Space, "S", "e", "a", "r", "c", "h", ":", Space>>

RECURSIVE song_lines_extinf_only(_)
\* an exporter that writes the #EXTINF line of each song and no search line
song_lines_extinf_only(songlist) ==
    IF songlist = <<>> THEN <<>>
    ELSE LET song == Head(songlist)
         IN  << EXTINF \o song.artist \o <<Space, "-", Space>> \o song.name >>
             \o song_lines_extinf_only(Tail(songlist))

RECURSIVE song_lines(_)
\* the two lines written per song (lines 270-276)
song_lines(songlist) ==
    IF songlist = <<>> THEN <<>>
    ELSE LET song == Head(songlist)
         IN  << EXTINF \o song.artist \o <<Space, "-", Space>> \o song.name,
                SearchPrefix \o song.name \o <<Space, "b", "y", Space>> \o song.artist >>
             \o song_lines(Tail(songlist))

RECURSIVE write_all(_)
\* the text the f.write calls leave in the file: every line, each ended by
\* "\n"
write_all(lines) ==
    IF lines = <<>> THEN <<>>
    ELSE Head(lines) \o <<Newline>> \o write_all(Tail(lines))

\* M3UExporter.export_playlist: the path written, the lines handed to
\* f.write, and the text of the file
export_playlist(playlist_name, songlist, output) ==
    [path |-> IF output.given THEN output.path ELSE default_output_path(playlist_name),
     lines |-> <<EXTM3U>> \o song_lines(songlist),
     content |-> write_all(<<EXTM3U>> \o song_lines(songlist))]

\* open(path, 'w') followed by the writes: the file is created or replaced
WriteFile(fs, file) ==
    [p \in DOMAIN fs \cup {file.path} |-> IF p = file.path THEN file.content ELSE fs[p]]

RECURSIVE SplitFrom(_, _)
\* the lines of text, cur being the line read so far
SplitFrom(text, cur) ==
    IF text = <<>> THEN (IF cur = <<>> THEN <<>> ELSE <<cur>>)
    ELSE IF Head(text) = Newline THEN <<cur>> \o SplitFrom(Tail(text), <<>>)
    ELSE SplitFrom(Tail(text), Append(cur, Head(text)))

\* the lines a reader of the file sees
FileLines(text) == SplitFrom(text, <<>>)

(* ---------------------------- resolver --------------------------------- *)

\* AppleMusicWindowsController.__init__: imports win32com.client and sets
\* the handle to None; it binds to no application
windows_controller_init(pywin32) ==
    IF pywin32 THEN [raised |-> "no", itunes |-> Unbound]
    ELSE [raised |-> "ImportError", itunes |-> Unbound]

\* the win32 branch without its except ImportError clause
ResolverCatchesRuntimeErrorOnly == {"RuntimeError"}

\* the exceptions the win32 branch of get_music_controller catches
\* (lines 296 and 300)
ResolverCatches == {"ImportError", "RuntimeError"}

Fallback == <<"Warning", "Falling back to M3U export mode">>

\* get_music_controller: None under --export-only; the AppleScript
\* controller on darwin; on win32 the COM controller unless its constructor
\* raises; None on every other platform.  constructed tells which
\* constructor ran, raised an exception that leaves the function.
get_music_controller(export_only, platform, pywin32) ==
    IF export_only
    THEN [controller |-> "None", constructed |-> "None", raised |-> "no", out |-> <<>>]
    ELSE IF platform = "darwin"
    THEN [controller |-> "Mac", constructed |-> "Mac", raised |-> "no", out |-> <<>>]
    ELSE IF platform = "win32"
    THEN LET made == windows_controller_init(pywin32)
         IN  IF made.raised = "no"
             THEN [controller |-> "Windows", constructed |-> "Windows", raised |-> "no",
                   out |-> <<>>]
             ELSE IF made.raised \in ResolverCatches
             THEN [controller |-> "None", constructed |-> "Windows", raised |-> "no",
                   out |-> Fallback]
             ELSE [controller |-> "None", constructed |-> "Windows",
                   raised |-> made.raised, out |-> <<>>]
    ELSE [controller |-> "None", constructed |-> "None", raised |-> "no", out |-> Fallback]

(* ---------------------------- state ------------------------------------ *)

VARIABLES
    request,           \* the command that is run: the setlist upstream and the name
    sources,           \* host library: sources, their playlists, their tracks
    catalog,           \* host search: query -> results
    files,             \* file system: path -> text
    runs,              \* runs started so far
    pc,                \* where main() is
    songs,             \* main: songs
    playlist_name,     \* main: playlist_name
    music_controller,  \* main: music_controller ("unresolved" before line 400)
    itunes,            \* AppleMusicWindowsController.itunes
    done_songs,        \* tracks the loop of line 435 has gone through
    successful,        \* main: successful
    failed,            \* main: failed
    exit_status,       \* "running", "0" or "1"
    stdout,            \* what the run has printed
    resolved,          \* history: what get_music_controller did in this run
    ensure_calls,      \* history: create_playlist calls of this run
    add_calls,         \* history: search_and_add_song calls of this run
    written,           \* history: export_playlist calls of this run
    dest_at_start,     \* history: the destination's tracks when the run started
    host_at_start,     \* history: the library and the files when the run started
    history            \* history: summaries of the earlier runs

host == <<sources, catalog, files>>
local == <<songs, playlist_name, music_controller, itunes, done_songs, successful, failed>>
ghost == <<resolved, ensure_calls, add_calls, written, dest_at_start, host_at_start>>
vars == <<request, host, runs, pc, local, exit_status, stdout, ghost, history>>

\* one printed line
Line(msg, arg) == [msg |-> msg, arg |-> arg]
Lines(out) == [i \in DOMAIN out |-> Line(out[i], <<>>)]

NotResolved == [controller |-> "unresolved", constructed |-> "None", raised |-> "no",
                out |-> <<>>, export_only |-> FALSE, platform |-> "unresolved",
                pywin32 |-> FALSE]

\* before the command is started: no file written, main's locals and the
\* histories empty
InitProcess ==
    /\ files = <<>>
    /\ runs = 0
    /\ pc = "idle"
    /\ songs = <<>>
    /\ playlist_name = <<>>
    /\ music_controller = "unresolved"
    /\ itunes = Unbound
    /\ done_songs = 0
    /\ successful = 0
    /\ failed = 0
    /\ exit_status = "running"
    /\ stdout = <<>>
    /\ resolved = NotResolved
    /\ ensure_calls = <<>>
    /\ add_calls = <<>>
    /\ written = <<>>
    /\ dest_at_start = <<>>
    /\ host_at_start = [sources |-> sources, files |-> files]
    /\ history = <<>>

Init ==
    /\ request \in [setlist : TrackLists, name : PlaylistNames]
    /\ sources \in InitSources
    /\ catalog \in Catalogs
    /\ InitProcess


(* ---------------------------- main() ----------------------------------- *)

\* a call that ended in Added or NotFound: the host signalled no error
CleanOutcomes == {"Added", "NotFound"}

\* what is kept of a run that has ended: whether it went through the track
\* loop to the report, whether every call of the loop ended without a host
\* error, how many tracks it added, and the destination it started from
Summary ==
    [reported |-> music_controller \in {"Mac", "Windows"} /\ exit_status = "0",
     clean |-> \A i \in DOMAIN add_calls : add_calls[i].outcome \in CleanOutcomes,
     successful |-> successful,
     created |-> \E i \in DOMAIN ensure_calls :
                    ~ensure_calls[i].raised /\ ensure_calls[i].count_before = 0,
     dest_at_start |-> dest_at_start]

\* a process whose exit status is 0 whatever it ended on
Exit_always_zero(code) == pc' = "done" /\ exit_status' = "0"

\* sys.exit(code), or main returning (code "0")
Exit(code) == pc' = "done" /\ exit_status' = code

\* a fresh process: main's locals and the histories of the run are empty
FreshProcess ==
    /\ runs' = runs + 1
    /\ pc' = "check_key"
    /\ songs' = <<>>
    /\ playlist_name' = <<>>
    /\ music_controller' = "unresolved"
    /\ itunes' = Unbound
    /\ done_songs' = 0
    /\ successful' = 0
    /\ failed' = 0
    /\ exit_status' = "running"
    /\ stdout' = <<>>
    /\ resolved' = NotResolved
    /\ ensure_calls' = <<>>
    /\ add_calls' = <<>>
    /\ written' = <<>>
    /\ dest_at_start' = PlaylistTracks(sources, request.name)
    /\ host_at_start' = [sources |-> sources, files |-> files]
    /\ UNCHANGED <<request, host>>

\* the command is started
StartRun ==
    /\ pc = "idle"
    /\ FreshProcess
    /\ UNCHANGED history

\* the same command is started again, against the host as the earlier run
\* left it
Rerun ==
    /\ pc = "done"
    /\ runs < MaxRuns
    /\ FreshProcess
    /\ history' = Append(history, Summary)

\* lines 352-356: no API key
CheckApiKey ==
    /\ pc = "check_key"
    /\ \E api_key \in BOOLEAN :
         IF ~api_key
         THEN /\ stdout' = Append(stdout, Line("Error: setlist.fm API key required", <<>>))
              /\ Exit("1")
         ELSE /\ stdout' = Append(stdout, Line("Fetching setlist", <<>>))
              /\ pc' = "extract_id"
              /\ UNCHANGED exit_status
    /\ UNCHANGED <<request, host, runs, local, ghost, history>>

\* lines 364-370: the URL carries a setlist id or it does not
ExtractSetlistId ==
    /\ pc = "extract_id"
    /\ \E url_matches \in BOOLEAN :
         IF ~url_matches
         THEN /\ stdout' = Append(stdout, Line("Error: Could not extract setlist ID", <<>>))
              /\ Exit("1")
         ELSE /\ stdout' = Append(stdout, Line("Setlist ID", <<>>))
              /\ pc' = "fetch"
              /\ UNCHANGED exit_status
    /\ UNCHANGED <<request, host, runs, local, ghost, history>>

\* lines 373-379: the fetch answers, or raises HTTPError (401 included)
FetchSetlist ==
    /\ pc = "fetch"
    /\ \E response \in {"200", "401", "404"} :
         IF response # "200"
         THEN /\ stdout' = Append(stdout, Line("Error fetching setlist", <<response>>))
              /\ Exit("1")
         ELSE /\ pc' = "parse"
              /\ UNCHANGED <<exit_status, stdout>>
    /\ UNCHANGED <<request, host, runs, local, ghost, history>>

\* main without the check of lines 384-386: an empty song list goes on to
\* the controller
ParseSongs_without_empty_check ==
    /\ pc = "parse"
    /\ songs' = request.setlist
    /\ stdout' = Append(stdout, Line("Songs found", <<Len(songs')>>))
    /\ playlist_name' = request.name
    /\ pc' = "resolve"
    /\ UNCHANGED <<request, host, runs, music_controller, itunes, done_songs,
                   successful, failed, exit_status, ghost, history>>

\* lines 382-397: the songs, and the playlist name
ParseSongs ==
    /\ pc = "parse"
    /\ songs' = request.setlist
    /\ IF songs' = <<>>
       THEN /\ stdout' = Append(stdout, Line("No songs found in setlist", <<>>))
            /\ Exit("1")
            /\ UNCHANGED playlist_name
       ELSE /\ stdout' = Append(stdout, Line("Songs found", <<Len(songs')>>))
            /\ playlist_name' = request.name
            /\ pc' = "resolve"
            /\ UNCHANGED exit_status
    /\ UNCHANGED <<request, host, runs, music_controller, itunes, done_songs,
                   successful, failed, ghost, history>>

\* line 400; whether pywin32 is installed is read by the COM constructor
\* alone, so it is drawn only where that constructor runs
ResolveController ==
    /\ pc = "resolve"
    /\ \E export_only \in BOOLEAN, platform \in Platforms :
       \E pywin32 \in IF ~export_only /\ platform = "win32" THEN BOOLEAN ELSE {FALSE} :
         LET got == get_music_controller(export_only, platform, pywin32)
         IN  /\ resolved' = got @@ [export_only |-> export_only, platform |-> platform,
                                     pywin32 |-> pywin32]
             /\ stdout' = stdout \o Lines(got.out)
             /\ IF got.raised # "no"
                THEN /\ Exit("1")
                     /\ UNCHANGED music_controller
                ELSE /\ music_controller' = got.controller
                     /\ pc' = "dispatch"
                     /\ UNCHANGED exit_status
    /\ UNCHANGED <<request, host, runs, songs, playlist_name, itunes, done_songs,
                   successful, failed, ensure_calls, add_calls, written, dest_at_start,
                   host_at_start, history>>

\* the branch of lines 402-416 without its return: main goes on to the loop
after_export_falls_through == [pc |-> "loop", exit_status |-> "running"]

\* the export branch ending in sys.exit(1)
after_export_exit_one == [pc |-> "done", exit_status |-> "1"]

\* line 416: main returns after the export, the process ends with status 0
after_export == [pc |-> "done", exit_status |-> "0"]

\* lines 402-416: no controller, the M3U file is the result
ExportOnly ==
    /\ pc = "dispatch"
    /\ music_controller = "None"
    /\ \E output \in OutputArgs :
         LET file == export_playlist(playlist_name, songs, output)
         IN  /\ files' = WriteFile(files, file)
             /\ written' = Append(written, [path |-> file.path, songs |-> songs,
                                            given |-> output.given])
             /\ stdout' = stdout \o << Line("Exporting playlist to M3U file", <<>>),
                                       Line("M3U playlist exported successfully!", <<>>),
                                       Line("File", file.path),
                                       Line("Songs", <<Len(songs)>>) >>
    /\ pc' = after_export.pc
    /\ exit_status' = after_export.exit_status
    /\ UNCHANGED <<request, sources, catalog, runs, local, resolved, ensure_calls,
                   add_calls, dest_at_start, host_at_start, history>>

\* the call of line 422 on the controller that was resolved
create_playlist(controller, srcs, handle, name, bind, fault) ==
    IF controller = "Mac"
    THEN mac_create_playlist(srcs, name, fault)
             @@ [itunes |-> handle, attempted |-> FALSE,
                 command_ok |-> mac_playlist_literal(name).ok,
                 target |-> mac_playlist_literal(name).value]
    ELSE win_create_playlist(srcs, handle, name, bind, fault)
             @@ [command_ok |-> TRUE, target |-> name]

\* the except clause of lines 423-428 ending the run with status 0
after_create_failure_exit_zero == [pc |-> "done", exit_status |-> "0"]

\* the except clause of lines 423-428 without its sys.exit: main goes on to
\* the loop
after_create_failure_no_exit == [pc |-> "loop", exit_status |-> "running"]

\* line 428: after the fallback export the run ends with status 1
after_create_failure == [pc |-> "done", exit_status |-> "1"]

\* lines 419-428: the playlist is created, or the export stands in for it
\* and the run exits with 1
CreatePlaylist ==
    /\ pc = "dispatch"
    /\ music_controller # "None"
    /\ \E bind \in BindOutcomes, fault \in BOOLEAN, output \in OutputArgs :
         LET call == create_playlist(music_controller, sources, itunes, playlist_name,
                                     bind, fault)
             file == export_playlist(playlist_name, songs, output)
         IN  /\ sources' = call.sources
             /\ itunes' = call.itunes
             /\ ensure_calls' = Append(ensure_calls,
                    [name |-> playlist_name, raised |-> call.raised,
                     controller |-> music_controller, handle |-> call.itunes,
                     command_ok |-> call.command_ok,
                     target |-> call.target,
                     attempted |-> call.attempted,
                     bind_failed |-> call.attempted /\ call.itunes = Unbound,
                     count_before |-> CountPlaylists(sources, playlist_name),
                     count_after |-> CountPlaylists(call.sources, playlist_name),
                     total_before |-> TotalPlaylists(sources),
                     total_after |-> TotalPlaylists(call.sources)])
             /\ IF call.raised
                THEN /\ files' = WriteFile(files, file)
                     /\ written' = Append(written, [path |-> file.path, songs |-> songs,
                                            given |-> output.given])
                     /\ stdout' = stdout \o << Line("Creating playlist", <<>>) >>
                                         \o Lines(call.out)
                                         \o << Line("Error creating playlist", <<>>),
                                               Line("Trying M3U export as fallback", <<>>),
                                               Line("M3U file created", file.path) >>
                     /\ pc' = after_create_failure.pc
                     /\ exit_status' = after_create_failure.exit_status
                ELSE /\ stdout' = stdout \o << Line("Creating playlist", <<>>) >>
                                         \o Lines(call.out)
                                         \o << Line("Adding songs to playlist", <<>>) >>
                     /\ pc' = "loop"
                     /\ UNCHANGED <<files, written, exit_status>>
    /\ UNCHANGED <<request, catalog, runs, songs, playlist_name, music_controller,
                   done_songs, successful, failed, resolved, add_calls, dest_at_start,
                   host_at_start, history>>

\* where the host fails during one call: nowhere; in the automation channel
\* itself; in the search; in the addition of the track
FaultStages == {"none", "channel", "search", "add"}

\* the call of line 436 on the controller that was resolved
search_and_add_song(controller, srcs, cat, handle, name, song, bind, stage) ==
    IF controller = "Mac"
    THEN mac_search_and_add_song(srcs, cat, name, song.name, song.artist, stage)
             @@ [itunes |-> handle, attempted |-> FALSE,
                 query_ok |-> mac_search_literal(song.name, song.artist).ok,
                 query |-> mac_search_literal(song.name, song.artist).value,
                 command_ok |-> mac_playlist_literal(name).ok,
                 target |-> mac_playlist_literal(name).value]
    ELSE win_search_and_add_song(srcs, cat, handle, name, song.name, song.artist,
                                 bind, stage)
             @@ [query_ok |-> TRUE, query |-> search_query(song.name, song.artist),
                 command_ok |-> TRUE, target |-> name]

\* the entries a call appended to the destination playlist
Appended(before, after, name) ==
    SubSeq(PlaylistTracks(after, name), Len(PlaylistTracks(before, name)) + 1,
           Len(PlaylistTracks(after, name)))

\* the tally without its else branch
count_outcome_no_else(ret, ok, bad) ==
    IF ret THEN [successful |-> ok + 1, failed |-> bad]
    ELSE [successful |-> ok, failed |-> bad]

\* a tally that counts every call as added
count_outcome_always_added(ret, ok, bad) == [successful |-> ok + 1, failed |-> bad]

\* lines 436-439: the tally after one call
count_outcome(ret, ok, bad) ==
    IF ret THEN [successful |-> ok + 1, failed |-> bad]
    ELSE [successful |-> ok, failed |-> bad + 1]

\* lines 435-439: one iteration of the loop over songs; an exception that
\* left the controller would end the process with a traceback
AddSong ==
    /\ pc = "loop"
    /\ done_songs < Len(songs)
    /\ \E bind \in BindOutcomes, stage \in FaultStages :
         LET song == songs[done_songs + 1]
             call == search_and_add_song(music_controller, sources, catalog, itunes,
                                         playlist_name, song, bind, stage)
         IN  /\ sources' = call.sources
             /\ itunes' = call.itunes
             /\ stdout' = stdout \o Lines(call.out)
             /\ add_calls' = Append(add_calls,
                    [song |-> song, ret |-> call.ret, raised |-> call.raised,
                     outcome |-> call.outcome, handle |-> call.itunes,
                     query_ok |-> call.query_ok, query |-> call.query,
                     command_ok |-> call.command_ok, target |-> call.target,
                     searched |-> call.searched, results |-> call.results,
                     attempted |-> call.attempted,
                     appended |-> Appended(sources, call.sources, playlist_name),
                     entries_before |-> TotalEntries(sources),
                     entries_after |-> TotalEntries(call.sources)])
             /\ IF call.raised
                THEN /\ Exit("1")
                     /\ UNCHANGED <<successful, failed, done_songs>>
                ELSE /\ successful' = count_outcome(call.ret, successful, failed).successful
                     /\ failed' = count_outcome(call.ret, successful, failed).failed
                     /\ done_songs' = done_songs + 1
                     /\ UNCHANGED <<pc, exit_status>>
    /\ UNCHANGED <<request, catalog, files, runs, songs, playlist_name,
                   music_controller, resolved, ensure_calls, written,
                   dest_at_start, host_at_start, history>>

\* lines 441-448: the loop is over, the counts are printed, main returns
Report ==
    /\ pc = "loop"
    /\ done_songs = Len(songs)
    /\ stdout' = stdout \o << Line("Playlist creation complete!", <<>>),
                              Line("Playlist name", playlist_name),
                              Line("Total songs", <<Len(songs)>>),
                              Line("Successfully added", <<successful>>),
                              Line("Not found/failed", <<failed>>) >>
    /\ Exit("0")
    /\ UNCHANGED <<request, host, runs, local, ghost, history>>

Next ==
    \/ StartRun
    \/ CheckApiKey
    \/ ExtractSetlistId
    \/ FetchSetlist
    \/ ParseSongs
    \/ ResolveController
    \/ ExportOnly
    \/ CreatePlaylist
    \/ AddSong
    \/ Report

\* one run of the command
Spec == Init /\ [][Next]_vars

NextRerun ==
    \/ Next
    \/ Rerun

\* the command run up to MaxRuns times against the same host
SpecRerun == Init /\ [][NextRerun]_vars

\* create_playlist called once more on the same library with the same name,
\* by either live controller (lines 106-116, 192-208)
EnsureAgain ==
    /\ pc = "idle"
    /\ Len(ensure_calls) < MaxCalls
    /\ \E controller \in {"Mac", "Windows"}, bind \in BindOutcomes, fault \in BOOLEAN :
         LET call == create_playlist(controller, sources, itunes, request.name, bind, fault)
         IN  /\ sources' = call.sources
             /\ itunes' = call.itunes
             /\ ensure_calls' = Append(ensure_calls,
                    [name |-> request.name, raised |-> call.raised,
                     controller |-> controller, handle |-> call.itunes,
                     command_ok |-> call.command_ok,
                     target |-> call.target,
                     attempted |-> call.attempted,
                     bind_failed |-> call.attempted /\ call.itunes = Unbound,
                     count_before |-> CountPlaylists(sources, request.name),
                     count_after |-> CountPlaylists(call.sources, request.name),
                     total_before |-> TotalPlaylists(sources),
                     total_after |-> TotalPlaylists(call.sources)])
    /\ UNCHANGED <<request, catalog, files, runs, pc, songs, playlist_name,
                   music_controller, done_songs, successful, failed, exit_status, stdout,
                   resolved, add_calls, written, dest_at_start, host_at_start, history>>

\* a library that receives consecutive create_playlist calls for one name
SpecEnsure == Init /\ [][EnsureAgain]_vars

\* the types of the state
TypeOK ==
    /\ pc \in {"idle", "check_key", "extract_id", "fetch", "parse", "resolve",
               "dispatch", "loop", "done"}
    /\ exit_status \in {"running", "0", "1"}
    /\ music_controller \in {"unresolved", "None", "Mac", "Windows"}
    /\ itunes \in {Unbound, "AppleMusic.Application", "iTunes.Application"}
    /\ runs \in 0..MaxRuns
    /\ done_songs \in 0..Len(songs)
    /\ successful \in 0..Len(songs)
    /\ failed \in 0..Len(songs)

(* ---------------------------- properties ------------------------------- *)

\* the run called create_playlist and the call returned
EnsureSucceeded == ensure_calls # <<>> /\ ~ensure_calls[1].raised

\* the run called create_playlist and the call raised
EnsureRaised == ensure_calls # <<>> /\ ensure_calls[1].raised

\* the argument of the printed line msg, <<>> when the run has not printed it
Printed(msg) ==
    IF \E i \in DOMAIN stdout : stdout[i].msg = msg
    THEN stdout[CHOOSE i \in DOMAIN stdout : stdout[i].msg = msg].arg
    ELSE <<>>

HasPrinted(msg) == \E i \in DOMAIN stdout : stdout[i].msg = msg

\* the songs of the search_and_add_song calls made so far, in call order
CalledSongs == [i \in DOMAIN add_calls |-> add_calls[i].song]

\* C1: in a live run whose create_playlist returned, the search_and_add_song
\* calls made so far are the first tracks of the track list, in order, one
\* call per track, duplicates included, whatever the earlier calls ended in;
\* and when the run has ended, every track has had its call.
C1_CallsFollowTrackList ==
    EnsureSucceeded =>
        /\ Len(add_calls) <= Len(songs)
        /\ CalledSongs = SubSeq(songs, 1, Len(add_calls))
        /\ pc = "done" => CalledSongs = songs

\* a run that ended after a first call that failed with an exception inside
\* the backend, on a list that plays the same track twice
C1_Witness ==
    /\ pc = "done"
    /\ EnsureSucceeded
    /\ Len(songs) = MaxSongs
    /\ songs[1] = songs[2]
    /\ add_calls[1].outcome = "Exception"
    /\ add_calls[2].outcome = "Added"

\* C2: once the loop is entered, successful + failed is the number of tracks
\* processed; the counts the report prints add up to the printed total, which
\* is the length of the track list.
C2_CountsAddUp ==
    EnsureSucceeded =>
        /\ successful + failed = done_songs
        /\ done_songs = Len(add_calls)
        /\ HasPrinted("Successfully added") =>
              /\ Printed("Successfully added")[1] + Printed("Not found/failed")[1]
                     = Printed("Total songs")[1]
              /\ Printed("Total songs")[1] = Len(request.setlist)

\* a report after one track was added, and one failed with a host error
C2_Witness ==
    /\ HasPrinted("Successfully added")
    /\ Printed("Successfully added") = <<1>>
    /\ Printed("Not found/failed") = <<1>>
    /\ \E i \in DOMAIN add_calls : add_calls[i].outcome \in {"Error", "Exception"}

\* C3: when create_playlist raises, the exporter is called once, on the whole
\* track list in its order, the file is there, no track is searched for, and
\* the run has ended with status 1.
C3_CreateFailureExports ==
    EnsureRaised =>
        /\ Len(written) = 1
        /\ written[1].songs = request.setlist
        /\ written[1].path \in DOMAIN files
        /\ Len(FileLines(files[written[1].path])) = 2 * Len(request.setlist) + 1
        /\ add_calls = <<>>
        /\ pc = "done"
        /\ exit_status = "1"

\* create_playlist raised on a list of two tracks; the file is written
C3_Witness ==
    /\ EnsureRaised
    /\ Len(songs) = MaxSongs
    /\ Len(written) = 1
    /\ exit_status = "1"

\* C4: with no controller (the Null backend) the run makes no create_playlist
\* and no search_and_add_song call, and when it has ended it has written one
\* export file and its status is 0.
C4_NullBackendExports ==
    music_controller = "None" =>
        /\ songs # <<>>
        /\ ensure_calls = <<>>
        /\ add_calls = <<>>
        /\ Len(written) <= 1
        /\ pc = "done" =>
              /\ Len(written) = 1
              /\ written[1].songs = request.setlist
              /\ written[1].path \in DOMAIN files
              /\ exit_status = "0"

\* a run with the Null backend that has ended
C4_Witness ==
    /\ music_controller = "None"
    /\ pc = "done"
    /\ Len(written) = 1
    /\ exit_status = "0"

\* C5: create_playlist is called at most once in a run, exactly once when a
\* live controller has been past line 422, and every search_and_add_song
\* call comes after a create_playlist call that returned.
C5_EnsureOnceBeforeAdds ==
    /\ Len(ensure_calls) <= 1
    /\ (music_controller \in {"Mac", "Windows"} /\ pc \in {"loop", "done"})
           => Len(ensure_calls) = 1
    /\ add_calls # <<>> => EnsureSucceeded

\* a live run that has made its create_playlist call and a track call
C5_Witness ==
    /\ music_controller = "Windows"
    /\ Len(ensure_calls) = 1
    /\ Len(add_calls) = MaxSongs

\* C7: get_music_controller does not raise and yields a native controller or
\* None, for every platform, every --export-only and with or without
\* pywin32; --export-only yields None and constructs nothing; a platform
\* other than darwin and win32 yields None.
C7_ResolutionNeverFails ==
    resolved.platform # "unresolved" =>
        /\ resolved.raised = "no"
        /\ resolved.controller \in {"None", "Mac", "Windows"}
        /\ music_controller = resolved.controller
        /\ resolved.export_only =>
              resolved.controller = "None" /\ resolved.constructed = "None"
        /\ resolved.platform \notin {"darwin", "win32"} => resolved.controller = "None"

\* win32 without pywin32: the constructor raised ImportError, None is the
\* result, the fallback was announced
C7_Witness ==
    /\ resolved.platform = "win32"
    /\ ~resolved.pywin32
    /\ ~resolved.export_only
    /\ resolved.controller = "None"
    /\ HasPrinted("Falling back to M3U export mode")

\* a binding attempt of this run found neither Apple Music nor iTunes
BindFailed ==
    \/ \E i \in DOMAIN ensure_calls : ensure_calls[i].bind_failed
    \/ \E i \in DOMAIN add_calls : add_calls[i].attempted /\ itunes = Unbound

\* C6: when binding to the host application fails, the resolver has warned
\* and yielded None, the run takes the export path of the Null backend and
\* ends with status 0.
C6_UnreachableHostDegrades ==
    BindFailed =>
        /\ music_controller = "None"
        /\ HasPrinted("Warning")
        /\ pc = "done" => exit_status = "0"

\* what one search_and_add_song call left in the library
NothingAdded(c) == c.appended = <<>> /\ c.entries_after = c.entries_before
OnlyFirstAdded(c) ==
    c.appended = <<c.results[1]>> /\ c.entries_after = c.entries_before + 1

\* C8 as claimed: a call whose host search returned no result ends NotFound
\* and adds nothing; a call whose search returned results ends Added and
\* adds the first result and no other.
C8_FirstResultAlwaysAdded ==
    \A i \in DOMAIN add_calls :
        LET c == add_calls[i]
        IN  c.searched =>
                IF c.results = <<>>
                THEN c.outcome = "NotFound" /\ ~c.ret /\ NothingAdded(c)
                ELSE c.outcome = "Added" /\ c.ret /\ OnlyFirstAdded(c)

\* C8 amended: a call whose host search returned no result ends NotFound and
\* adds nothing; a call whose search returned results either ends Added,
\* having added the first result and no other, or, when the host signals an
\* error while the track is added, ends as a failure, having added nothing.
C8_FirstResultOrError ==
    \A i \in DOMAIN add_calls :
        LET c == add_calls[i]
        IN  /\ c.searched =>
                IF c.results = <<>>
                THEN c.outcome = "NotFound" /\ ~c.ret /\ NothingAdded(c)
                ELSE \/ c.outcome = "Added" /\ c.ret /\ OnlyFirstAdded(c)
                     \/ c.outcome \in {"Error", "Exception"} /\ ~c.ret /\ NothingAdded(c)
            /\ c.ret => c.searched /\ c.results # <<>>
            /\ ~c.searched => NothingAdded(c)

\* a search with two results whose first was added, a search with none, and
\* a search with results whose addition failed
C8_Witness ==
    /\ Len(add_calls) = MaxSongs
    /\ \E i \in DOMAIN add_calls :
          /\ Len(add_calls[i].results) > 1
          /\ add_calls[i].outcome = "Added"
          /\ add_calls[i].appended = <<add_calls[i].results[1]>>
    /\ \E i \in DOMAIN add_calls :
          \/ add_calls[i].searched /\ add_calls[i].results = <<>>
          \/ /\ add_calls[i].searched
             /\ add_calls[i].results # <<>>
             /\ ~add_calls[i].ret

\* C9: of consecutive create_playlist calls with one name, a call that finds
\* a library playlist of the name creates nothing; a call that finds none
\* and returns creates that one playlist and no other; a call that raises
\* creates nothing; after a call that returned, every later call finds the
\* playlist; so the library never holds two playlists of the name, and holds
\* exactly one from the first call that returned.
C9_EnsureIdempotent ==
    /\ \A n \in PlaylistNames : CountPlaylists(sources, n) <= 1
    /\ \A i \in DOMAIN ensure_calls :
          LET c == ensure_calls[i]
          IN  /\ c.count_before >= 1 =>
                    c.count_after = c.count_before /\ c.total_after = c.total_before
              /\ (c.count_before = 0 /\ ~c.raised) =>
                    c.count_after = 1 /\ c.total_after = c.total_before + 1
              /\ c.raised => c.total_after = c.total_before
              /\ \A j \in DOMAIN ensure_calls :
                    (i < j /\ ~c.raised) => ensure_calls[j].count_before = 1
    /\ (\E i \in DOMAIN ensure_calls : ~ensure_calls[i].raised)
           => CountPlaylists(sources, request.name) = 1

\* the first call created the playlist, the calls after it returned and
\* created nothing
C9_Witness ==
    /\ Len(ensure_calls) = MaxCalls
    /\ ensure_calls[1].count_before = 0
    /\ \A i \in DOMAIN ensure_calls : ~ensure_calls[i].raised
    /\ \A i \in DOMAIN ensure_calls :
          i > 1 => ensure_calls[i].total_after = ensure_calls[i].total_before
    /\ CountPlaylists(sources, request.name) = 1

RECURSIVE TopResults(_)
\* the first result of the host search for every song that has one, in the
\* order of the songs
TopResults(songlist) ==
    IF songlist = <<>> THEN <<>>
    ELSE LET found == HostSearch(catalog, search_query(Head(songlist).name,
                                                       Head(songlist).artist))
         IN  (IF found = <<>> THEN <<>> ELSE <<found[1]>>) \o TopResults(Tail(songlist))

RECURSIVE Repeat(_, _)
Repeat(seq, n) == IF n = 0 THEN <<>> ELSE seq \o Repeat(seq, n - 1)

\* every run so far, the current one included, went through its track loop
\* to the report with no host error in any call
AllRunsCleanAndReported ==
    /\ pc = "done"
    /\ Summary.reported
    /\ Summary.clean
    /\ \A i \in DOMAIN history : history[i].reported /\ history[i].clean

\* the destination's tracks when the first run started
FirstStart == IF history = <<>> THEN dest_at_start ELSE history[1].dest_at_start

\* C10: after the command has been run n times with the same track list and
\* name and the same search results, every run having gone through its loop
\* without a host error, there is one playlist of the name, and it holds what
\* it held at the start followed by the first results of the matched tracks
\* once per run: a later run adds them again.
C10_TracksAddedAgain ==
    AllRunsCleanAndReported =>
        /\ CountPlaylists(sources, playlist_name) = 1
        /\ PlaylistTracks(sources, playlist_name)
               = FirstStart \o Repeat(TopResults(songs), runs)

\* two runs, two matched tracks, a destination that held a track already
C10_Witness ==
    /\ AllRunsCleanAndReported
    /\ runs = MaxRuns
    /\ Len(TopResults(songs)) = MaxSongs
    /\ FirstStart # <<>>
    /\ Len(PlaylistTracks(sources, playlist_name)) = Len(FirstStart) + MaxRuns * MaxSongs

(* ---------------------------- exit status ------------------------------ *)

\* the run went through the track loop to the report
LoopCompleted == HasPrinted("Playlist creation complete!")

\* the run wrote an export with no live controller (lines 402-416)
NullExportCompleted == music_controller = "None" /\ written # <<>>

\* the run ended on one of the errors that come before the controller is
\* asked for (lines 352-386)
FatalBeforeCore ==
    \/ HasPrinted("Error: setlist.fm API key required")
    \/ HasPrinted("Error: Could not extract setlist ID")
    \/ HasPrinted("Error fetching setlist")
    \/ HasPrinted("No songs found in setlist")

\* C11: a run that has ended has exit status 0 when it wrote the export with
\* no live controller or went through its track loop, and a non-zero status
\* when it ended on the missing key, the unrecognized URL, the failed fetch
\* (the unauthorized answer included), the empty track list, or on a
\* create_playlist that raised followed by the fallback export.
C11_ExitStatus ==
    pc = "done" =>
        /\ NullExportCompleted \/ LoopCompleted => exit_status = "0"
        /\ FatalBeforeCore => exit_status = "1"
        /\ Printed("Error fetching setlist") = <<"401">> => exit_status = "1"
        /\ EnsureRaised /\ written # <<>> => exit_status = "1"
        /\ NullExportCompleted \/ LoopCompleted \/ FatalBeforeCore
               \/ (EnsureRaised /\ written # <<>>)

\* a run whose create_playlist raised has written the fallback export and
\* ended
C11_Witness ==
    /\ pc = "done"
    /\ EnsureRaised
    /\ written # <<>>
    /\ files # <<>>
    /\ exit_status = "1"

(* ---------------------------- user-visible output ---------------------- *)

\* the run printed the counts of added and of not found or failed tracks
CountsReported == HasPrinted("Successfully added") /\ HasPrinted("Not found/failed")

\* the run printed the path of the file it wrote
LocationReported ==
    \E i \in DOMAIN stdout :
        /\ stdout[i].msg \in {"File", "M3U file created"}
        /\ stdout[i].arg = written[1].path

\* C12: every run that parsed a non-empty track list and has ended has
\* printed the counts of successes and failures, and every run that wrote an
\* export has printed the path of the file.
C12_CountsAndLocationReported ==
    /\ pc = "done" /\ songs # <<>> => CountsReported
    /\ pc = "done" /\ written # <<>> => LocationReported

(* ---------------------------- the exported file ------------------------ *)

\* the lines of the file the run wrote
ExportedLines == FileLines(files[written[1].path])

\* C13: the file a run exported for a track list of N tracks has 2N + 1
\* lines: "#EXTM3U", then for the i-th track of the list, in the list's order
\* and with duplicates kept, "#EXTINF:-1,artist - title" at line 2i and
\* "# Search: title by artist" at line 2i + 1.
C13_ExportedFileLayout ==
    written # <<>> =>
        LET N == Len(request.setlist)
        IN  /\ Len(ExportedLines) = 2 * N + 1
            /\ ExportedLines[1] = EXTM3U
            /\ \A i \in 1..N :
                 LET title == request.setlist[i].name
                     artist == request.setlist[i].artist
                 IN  /\ ExportedLines[2 * i]
                            = EXTINF \o artist \o <<Space, "-", Space>> \o title
                     /\ ExportedLines[2 * i + 1]
                            = SearchPrefix \o title \o <<Space, "b", "y", Space>> \o artist

\* an export of a track list that holds the same track twice
C13_Witness ==
    /\ written # <<>>
    /\ request.setlist = <<SongB, SongB>>
    /\ Len(ExportedLines) = 2 * Len(request.setlist) + 1
    /\ ExportedLines[2] = ExportedLines[2 * Len(request.setlist)]

(* ---------------------------- the search literal ----------------------- *)

MaxLen == 2

\* the characters titles and artists are drawn from: a letter, the double
\* quote and the backslash
EscapeAlphabet == {"a", Quote, Backslash}
EscapeTexts == SeqsUpTo(EscapeAlphabet, MaxLen)

\* a setlist of one song whose title and artist are any texts over the
\* alphabet, a library that holds the playlist, and a host search that
\* answers the song's phrase with one track
InitEscape ==
    /\ request \in [setlist : {<<[name |-> t, artist |-> a]>> : t \in EscapeTexts,
                                                                 a \in EscapeTexts},
                    name : {NameTour}]
    /\ sources = << [Kind |-> KindLibrary, Playlists |-> << EmptyPlaylist(NameTour) >>] >>
    /\ catalog = [q \in {search_query(request.setlist[1].name, request.setlist[1].artist)}
                     |-> <<"t1">>]
    /\ InitProcess

\* one run of the command on such a setlist
SpecEscape == InitEscape /\ [][Next]_vars

\* C14: in every search_and_add_song call of the AppleScript controller the
\* search literal of the script is closed by its own final quote alone and
\* reads as title, one space, artist.
C14_SearchLiteralIntact ==
    music_controller = "Mac" =>
        \A i \in DOMAIN add_calls :
            /\ add_calls[i].query_ok
            /\ add_calls[i].query
                   = add_calls[i].song.name \o <<Space>> \o add_calls[i].song.artist

(* ---------------------------- the default file name -------------------- *)

\* the characters playlist names are drawn from: a letter, a digit, the
\* space, the hyphen, the underscore, the path separator and the colon
NameAlphabet == {"a", "3", Space, "-", "_", "/", ":"}
NameTexts == SeqsUpTo(NameAlphabet, MaxLen)

\* a one-song setlist under any playlist name over the alphabet
InitNames ==
    /\ request \in [setlist : {<<SongA>>}, name : NameTexts]
    /\ sources = << [Kind |-> KindLibrary, Playlists |-> <<>>] >>
    /\ catalog = [q \in {search_query(SongA.name, SongA.artist)} |-> <<"t1">>]
    /\ InitProcess

\* one run of the command under such a name
SpecNames == InitNames /\ [][Next]_vars

\* letters, digits, spaces, hyphens and underscores
IsKept(c) == c \in {"a", "3", Space, "-", "_"}

Spaces(n) == [i \in 1..n |-> Space]

\* C15: a file exported with no --output path is named by the letters,
\* digits, spaces, hyphens and underscores of the playlist name in their
\* order, less the trailing spaces, followed by ".m3u"; the name holds no
\* path separator and no colon.
C15_DefaultFileName ==
    \A i \in DOMAIN written :
        ~written[i].given =>
            LET path == written[i].path
                kept == SelectSeq(request.name, IsKept)
                stem == SubSeq(path, 1, Len(path) - 4)
            IN  /\ Len(path) >= 4
                /\ SubSeq(path, Len(path) - 3, Len(path)) = <<".", "m", "3", "u">>
                /\ Len(stem) <= Len(kept)
                /\ kept = stem \o Spaces(Len(kept) - Len(stem))
                /\ stem # <<>> => stem[Len(stem)] # Space
                /\ \A k \in DOMAIN path : path[k] \notin {"/", ":"}

\* an export under a name that has a separator or colon in it and ends in a
\* space
C15_Witness ==
    /\ written # <<>>
    /\ ~written[1].given
    /\ Len(request.name) = MaxLen
    /\ request.name[1] \in {"/", ":"}
    /\ request.name[Len(request.name)] = Space
    /\ files # <<>>

(* ---------------------------- the COM binding -------------------------- *)

\* the host operations of the run so far, in call order
HostCalls ==
    [i \in DOMAIN ensure_calls |->
        [attempted |-> ensure_calls[i].attempted, handle |-> ensure_calls[i].handle]]
    \o [i \in DOMAIN add_calls |->
        [attempted |-> add_calls[i].attempted, handle |-> add_calls[i].handle]]

\* C16: in a run with the COM controller the handle is unbound when the
\* resolver returns, the first host operation attempts the binding, no later
\* operation attempts one, and every later operation works on the handle the
\* first one bound.
C16_BindsOnceLazily ==
    music_controller = "Windows" =>
        /\ resolved.controller = "Windows"
        /\ HostCalls = <<>> => itunes = Unbound
        /\ HostCalls # <<>> =>
              /\ HostCalls[1].attempted
              /\ itunes = HostCalls[1].handle
              /\ \A i \in 2..Len(HostCalls) :
                    /\ ~HostCalls[i].attempted
                    /\ HostCalls[i].handle = HostCalls[1].handle
                    /\ HostCalls[i].handle # Unbound

\* a COM run that bound to iTunes in create_playlist and has made two
\* search_and_add_song calls since
C16_Witness ==
    /\ music_controller = "Windows"
    /\ Len(add_calls) > 1
    /\ HostCalls[1].attempted
    /\ HostCalls[1].handle = "iTunes.Application"
    /\ itunes = "iTunes.Application"

(* ---------------------------- added entries ---------------------------- *)

\* while the loop runs, the destination playlist is deleted in the
\* application: the case the COM controller reports as "Playlist not found"
\* (lines 231-233) and the script as an error of its duplicate command
PlaylistDeleted ==
    /\ pc = "loop"
    /\ Matches(sources, playlist_name) # {}
    /\ sources' = HostDeletePlaylist(sources, FirstMatch(sources, playlist_name))
    /\ UNCHANGED <<request, catalog, files, runs, pc, local, exit_status, stdout, ghost,
                   history>>

NextLive ==
    \/ Next
    \/ PlaylistDeleted

\* one run of the command against a host whose playlist can go away
SpecLive == Init /\ [][NextLive]_vars

\* the search_and_add_song calls of the run that returned True
AddedCalls == {i \in DOMAIN add_calls : add_calls[i].ret}

\* C17: in a live run every search_and_add_song call counted as added has
\* appended one entry to the destination playlist and every other call, the
\* COM controller's "Playlist not found" included, has left the playlists as
\* they were; the added count the run reports is the number of entries
\* appended, and it is what the destination has gained since the run started
\* when the playlist is still there.
C17_AddedCountIsAppended ==
    EnsureSucceeded =>
        /\ \A i \in DOMAIN add_calls :
              IF add_calls[i].ret
              THEN /\ Len(add_calls[i].appended) = 1
                   /\ add_calls[i].entries_after = add_calls[i].entries_before + 1
              ELSE NothingAdded(add_calls[i])
        /\ successful = Cardinality(AddedCalls)
        /\ LoopCompleted =>
              /\ Printed("Successfully added") = <<Cardinality(AddedCalls)>>
              /\ Matches(sources, playlist_name) # {} =>
                    Len(PlaylistTracks(sources, playlist_name))
                        = Len(dest_at_start) + Cardinality(AddedCalls)

\* a COM run that reported one added track after a second call found the
\* playlist gone
C17_Witness ==
    /\ LoopCompleted
    /\ music_controller = "Windows"
    /\ Printed("Successfully added") = <<1>>
    /\ Len(add_calls) > 1
    /\ add_calls[1].ret
    /\ add_calls[Len(add_calls)].outcome = "PlaylistNotFound"

(* ---------------------------- export or live --------------------------- *)

\* C18: a run writes an export file if and only if it has no live controller
\* or its create_playlist raised, it writes at most one, and no run both
\* writes an export file and makes a search_and_add_song call.
C18_ExportOrLive ==
    /\ written # <<>> => music_controller = "None" \/ EnsureRaised
    /\ Len(written) <= 1
    /\ pc = "done" /\ (music_controller = "None" \/ EnsureRaised) => written # <<>>
    /\ ~(written # <<>> /\ add_calls # <<>>)
    /\ add_calls # <<>> => files = host_at_start.files

\* both kinds of run have ended: this one wrote the export with no live
\* controller and made no call
C18_Witness ==
    /\ pc = "done"
    /\ music_controller = "None"
    /\ Len(written) = 1
    /\ files # <<>>
    /\ add_calls = <<>>
    /\ ensure_calls = <<>>

(* ---------------------------- the playlist literal --------------------- *)

\* C19: in every create_playlist and search_and_add_song call of the
\* AppleScript controller the playlist literal of the script is well-formed
\* and reads as the playlist name, also for a name with a double quote in it:
\* the name does not make create_playlist raise.
C19_PlaylistLiteralIntact ==
    music_controller = "Mac" =>
        /\ \A i \in DOMAIN ensure_calls :
              /\ ensure_calls[i].command_ok
              /\ ensure_calls[i].target = playlist_name
        /\ \A i \in DOMAIN add_calls :
              /\ add_calls[i].command_ok
              /\ add_calls[i].target = playlist_name

(* ---------------------------- fatal before the core -------------------- *)

\* the run has asked for no controller, made no controller call, written no
\* file, and the library and the files are as they were when it started
NoSideEffects ==
    /\ resolved = NotResolved
    /\ music_controller = "unresolved"
    /\ itunes = Unbound
    /\ ensure_calls = <<>>
    /\ add_calls = <<>>
    /\ written = <<>>
    /\ sources = host_at_start.sources
    /\ files = host_at_start.files

\* C20: a run that ended on the missing key, the unrecognized URL, the failed
\* fetch or the empty track list has resolved no controller, called neither
\* create_playlist nor search_and_add_song, and written no export file; a
\* run on an empty track list never does any of these.
C20_FatalRunsLeaveNoTrace ==
    /\ pc = "done" /\ FatalBeforeCore => NoSideEffects /\ exit_status = "1"
    /\ request.setlist = <<>> => NoSideEffects
    /\ pc \in {"check_key", "extract_id", "fetch", "parse"} => NoSideEffects

\* a run that ended on the empty track list, against a library that holds a
\* playlist of the name
C20_Witness ==
    /\ pc = "done"
    /\ HasPrinted("No songs found in setlist")
    /\ request.setlist = <<>>
    /\ exit_status = "1"
    /\ PlaylistTracks(sources, request.name) # <<>>

====
